---------------------------- MODULE Spec2Model ----------------------------
(***************************************************************************)
(* A model of src/evaluation/word_translation.py: load_dictionary and      *)
(* get_word_translation_accuracy, as one sequential run from the call to   *)
(* the return (pc = "done") or to the first raised exception               *)
(* (pc = "failed").                                                        *)
(*                                                                         *)
(* Abstractions.  A line of the gold file is the sequence of its           *)
(* whitespace-separated tokens (what line.rstrip().split() yields).  A     *)
(* method string is the sequence of its characters.  Floating-point        *)
(* metric values are exact non-negative rationals plus the IEEE values     *)
(* nan and inf, with numpy's division (x/0 yields nan or inf, it never     *)
(* raises).  The score matrix is an integer matrix: the three scoring      *)
(* methods differ only in the values they put in it, and every row of the  *)
(* matrix depends only on the row's source id (scores are indexed by       *)
(* dico[:, 0] in all three).                                               *)
(***************************************************************************)
EXTENDS Integers, Sequences, FiniteSets

\* ------------------------------------------------------------------ bounds
\* The longest gold file, in lines.
MaxLines == 2

\* ------------------------------------------------------- program constants
\* scores.topk(10, 1, True): the number of columns selected per row.
TopN == 10
\* for k in [1, 5, 10]
Cutoffs == <<1, 5, 10>>

\* ------------------------------------------------------------ vocabularies
\* word2id1: the source vocabulary.
word2id1 == [w \in {"cat", "dog"} |-> IF w = "cat" THEN 0 ELSE 1]

\* The target words in id order; a target vocabulary is a prefix of it.
TgtWords ==
    <<"chat", "chien", "t2", "t3", "t4", "t5", "t6", "t7", "t8", "t9",
      "t10", "t11">>

\* A target vocabulary of n words with contiguous ids 0..n-1.
Vocab2(n) ==
    [w \in {TgtWords[j] : j \in 1..n} |->
        (CHOOSE j \in 1..n : TgtWords[j] = w) - 1]

\* The target vocabularies tried: two words only, and TopN + 2 words.
Vocabularies2 == {Vocab2(2), Vocab2(Len(TgtWords))}

\* ---------------------------------------------------------------- the file
\* str.lower() on a token; "Cat" is the one token with an upper-case letter.
Lower(tok) == IF tok = "Cat" THEN "cat" ELSE tok

LowerLine(line) == [j \in 1..Len(line) |-> Lower(line[j])]

\* The lines a gold file is made of: blank, one token, three tokens, a
\* line with an upper-case letter, and two-token lines: the four pairs of
\* known words, and pairs with an unknown word ("owl", "hibou") on the
\* source side, on the target side and on both.
Lines ==
    {<<>>, <<"cat">>, <<"cat", "chat", "chien">>, <<"Cat", "chat">>}
        \cup {<<a, b>> : a \in {"cat", "dog"}, b \in {"chat", "chien"}}
        \cup {<<"owl", "chat">>, <<"cat", "hibou">>, <<"owl", "hibou">>}

Files == UNION {[1..n -> Lines] : n \in 0..MaxLines}

\* ------------------------------------------------------------- the methods
PrefixInvsm == <<"i", "n", "v", "s", "m", "_", "b", "e", "t", "a", "_">>
PrefixCsls == <<"c", "s", "l", "s", "_", "k", "n", "n", "_">>
MethodNN == <<"n", "n">>

Methods ==
    {MethodNN,
     PrefixInvsm \o <<"1">>,
     PrefixInvsm \o <<"x">>,
     PrefixInvsm,
     PrefixCsls \o <<"1", "0">>,
     PrefixCsls \o <<"1", "x">>,
     <<"b", "o", "g", "u", "s">>,
     <<"N", "N">>}

Digits == {"0", "1", "2", "3", "4", "5", "6", "7", "8", "9"}

\* str.startswith
StartsWith(s, p) == Len(s) >= Len(p) /\ SubSeq(s, 1, Len(p)) = p

\* s[len(p):]
Suffix(s, p) == SubSeq(s, Len(p) + 1, Len(s))

\* str.isdigit(): non-empty and every character a digit.
IsDigit(s) == Len(s) > 0 /\ \A j \in 1..Len(s) : s[j] \in Digits

\* Whether float(s) succeeds: an optional sign, then digits with at most
\* one point and at least one digit, or one of the words nan and inf.
FloatParses(s) ==
    LET body == IF Len(s) > 0 /\ s[1] \in {"+", "-"}
                THEN SubSeq(s, 2, Len(s)) ELSE s
    IN  \/ body \in {<<"n", "a", "n">>, <<"i", "n", "f">>}
        \/ /\ \A j \in 1..Len(body) : body[j] \in Digits \cup {"."}
           /\ Cardinality({j \in 1..Len(body) : body[j] = "."}) <= 1
           /\ \E j \in 1..Len(body) : body[j] \in Digits

\* ------------------------------------------------------------------ floats
RECURSIVE GCD(_, _)
GCD(a, b) == IF b = 0 THEN a ELSE GCD(b, a % b)

NaN == [kind |-> "nan", num |-> 0, den |-> 1]
Inf == [kind |-> "inf", num |-> 1, den |-> 1]

\* The non-negative rational n/d, d > 0, in lowest terms.
Num(n, d) ==
    LET g == GCD(n, d) IN [kind |-> "num", num |-> n \div g, den |-> d \div g]

IsZero(a) == a.kind = "num" /\ a.num = 0

\* numpy float64 arithmetic on non-negative values: no operation raises.
FMul(a, b) ==
    IF a.kind = "nan" \/ b.kind = "nan" THEN NaN
    ELSE IF a.kind = "inf" \/ b.kind = "inf"
         THEN IF IsZero(a) \/ IsZero(b) THEN NaN ELSE Inf
    ELSE Num(a.num * b.num, a.den * b.den)

FAdd(a, b) ==
    IF a.kind = "nan" \/ b.kind = "nan" THEN NaN
    ELSE IF a.kind = "inf" \/ b.kind = "inf" THEN Inf
    ELSE Num(a.num * b.den + b.num * a.den, a.den * b.den)

FDiv(a, b) ==
    IF a.kind = "nan" \/ b.kind = "nan" THEN NaN
    ELSE IF b.kind = "inf" THEN IF a.kind = "inf" THEN NaN ELSE Num(0, 1)
    ELSE IF a.kind = "inf" THEN Inf
    ELSE IF b.num = 0 THEN IF a.num = 0 THEN NaN ELSE Inf
    ELSE Num(a.num * b.den, a.den * b.num)

\* a <= b on floats; false when either is nan.
FLeq(a, b) ==
    /\ a.kind # "nan" /\ b.kind # "nan"
    /\ \/ b.kind = "inf"
       \/ a.kind = "num" /\ b.kind = "num" /\ a.num * b.den <= b.num * a.den

VARIABLES
    pc,             \* the position in the run
    isfile,         \* os.path.isfile(path)
    data,           \* the lines of the gold file
    word2id2,       \* the target vocabulary
    method,         \* the method string
    n_gold_std, index, pairs, warnings,
    not_found, not_found1, not_found2,
    dico,           \* the index: a sequence of <<id1, id2>> rows
    scores,         \* per row of dico, a function column -> score
    top_matches,    \* per row of dico, the TopN best columns, best first
    kpos,           \* the position in Cutoffs of the cutoff being evaluated
    n_relevant, row_matching, matching, trans_match, i,
    matching_at_k, results,
    error           \* the exception raised, if any

vars ==
    <<pc, isfile, data, word2id2, method, n_gold_std, index, pairs, warnings,
      not_found, not_found1, not_found2, dico, scores, top_matches, kpos,
      n_relevant, row_matching, matching, trans_match, i, matching_at_k,
      results, error>>

NoError == [type |-> "none", line |-> 0, arg |-> <<>>]

Init ==
    /\ pc = "call"
    /\ isfile \in BOOLEAN
    /\ data \in Files
    /\ (~isfile => data = <<>>)
    /\ word2id2 \in Vocabularies2
    /\ method \in Methods
    /\ n_gold_std = 0
    /\ index = 0
    /\ pairs = <<>>
    /\ warnings = <<>>
    /\ not_found = 0
    /\ not_found1 = 0
    /\ not_found2 = 0
    /\ dico = <<>>
    /\ scores = <<>>
    /\ top_matches = <<>>
    /\ kpos = 0
    /\ n_relevant = 0
    /\ row_matching = <<>>
    /\ matching = <<>>
    /\ trans_match = <<>>
    /\ i = 0
    /\ matching_at_k = <<>>
    /\ results = <<>>
    /\ error = NoError

\* raise: the run ends with the exception raised at source line `line`.
Raise(type, line, arg) ==
    /\ pc' = "failed"
    /\ error' = [type |-> type, line |-> line, arg |-> arg]


\* ---------------------------------------------------------- load_dictionary
\* The condition under which a pair is kept (line 68).
KeepPair(word1, word2) ==
    word1 \in DOMAIN word2id1 /\ word2 \in DOMAIN word2id2

\* A sort keyed on the target id of the pair.
SortKeyTarget(pair) == word2id2[pair[2]]

\* The key of sorted(pairs, key=lambda x: word2id1[x[0]]) (line 82).
SortKey(pair) == word2id1[pair[1]]

\* One step of a stable sort: x goes after every element whose key is at
\* most its own.  `done` is sorted, so these are a prefix of it.
InsertByKey(done, x) ==
    LET n == Cardinality({j \in 1..Len(done) : SortKey(done[j]) <= SortKey(x)})
    IN  SubSeq(done, 1, n) \o <<x>> \o SubSeq(done, n + 1, Len(done))

\* sorted(pairs, key=...): Python's sort is stable.
RECURSIVE SortedPairs(_)
SortedPairs(ps) ==
    IF ps = <<>> THEN <<>>
    ELSE InsertByKey(SortedPairs(SubSeq(ps, 1, Len(ps) - 1)), ps[Len(ps)])

\* The rows of the tensor built from the sorted pairs (lines 83-86).
ToIds(ps) ==
    [j \in 1..Len(ps) |-> <<word2id1[ps[j][1]], word2id2[ps[j][2]]>>]

loadVars ==
    <<n_gold_std, index, pairs, warnings, not_found, not_found1, not_found2>>

inputVars == <<isfile, data, word2id2, method>>

evalVars ==
    <<scores, top_matches, kpos, n_relevant, row_matching, matching,
      trans_match, i, matching_at_k, results>>

\* Lines 50-60: the file is read and n_gold_std is computed from the first
\* token of every line, before any line is looked at by the loop.
LoadDictionaryOpen ==
    /\ pc = "call"
    /\ IF ~isfile
       THEN /\ Raise("AssertionError", 50, <<>>)
            /\ UNCHANGED n_gold_std
       ELSE IF \E j \in 1..Len(data) : Len(data[j]) = 0
       THEN /\ Raise("IndexError", 60, <<>>)
            /\ UNCHANGED n_gold_std
       ELSE /\ n_gold_std' = Cardinality({data[j][1] : j \in 1..Len(data)})
            /\ pc' = "load_loop"
            /\ UNCHANGED error
    /\ UNCHANGED <<inputVars, index, pairs, warnings, not_found, not_found1,
                   not_found2, dico, evalVars>>

\* Lines 61-73: one iteration of the loop over the lines.
LoadDictionaryLine ==
    /\ pc = "load_loop"
    /\ index < Len(data)
    /\ LET line == data[index + 1] IN
       IF line # LowerLine(line)
       THEN /\ Raise("AssertionError", 62, <<>>)
            /\ UNCHANGED <<index, pairs, warnings, not_found, not_found1,
                           not_found2>>
       ELSE IF Len(line) < 2
       THEN /\ warnings' = Append(warnings, <<line, index>>)
            /\ index' = index + 1
            /\ UNCHANGED <<pc, error, pairs, not_found, not_found1,
                           not_found2>>
       ELSE IF Len(line) # 2
       THEN /\ Raise("ValueError", 67, <<>>)
            /\ UNCHANGED <<index, pairs, warnings, not_found, not_found1,
                           not_found2>>
       ELSE LET word1 == line[1]
                word2 == line[2]
            IN  /\ index' = index + 1
                /\ UNCHANGED <<pc, error, warnings>>
                /\ IF KeepPair(word1, word2)
                   THEN /\ pairs' = Append(pairs, <<word1, word2>>)
                        /\ UNCHANGED <<not_found, not_found1, not_found2>>
                   ELSE /\ not_found' = not_found + 1
                        /\ not_found1' = not_found1
                               + (IF word1 \notin DOMAIN word2id1 THEN 1 ELSE 0)
                        /\ not_found2' = not_found2
                               + (IF word2 \notin DOMAIN word2id2 THEN 1 ELSE 0)
                        /\ UNCHANGED pairs
    /\ UNCHANGED <<inputVars, n_gold_std, dico, evalVars>>

\* Lines 75-88: the pairs are sorted and returned as rows of ids.
LoadDictionaryReturn ==
    /\ pc = "load_loop"
    /\ index = Len(data)
    /\ pairs' = SortedPairs(pairs)
    /\ dico' = ToIds(pairs')
    /\ pc' = "loaded"
    /\ UNCHANGED <<inputVars, n_gold_std, index, warnings, not_found,
                   not_found1, not_found2, evalVars, error>>

\* ---------------------------------------------- get_word_translation_accuracy
\* emb1.size(0) and emb2.size(0): one embedding row per vocabulary word.
Emb1Size == Cardinality(DOMAIN word2id1)
Emb2Size == Cardinality(DOMAIN word2id2)

MaxOf(S) == CHOOSE x \in S : \A y \in S : y <= x

\* Lines 103-108: dico[:, 0].max() of a tensor with no rows raises; then
\* the two range assertions.
CheckIndex ==
    /\ pc = "loaded"
    /\ IF dico = <<>>
       THEN Raise("RuntimeError", 107, <<>>)
       ELSE IF ~(MaxOf({dico[j][1] : j \in 1..Len(dico)}) < Emb1Size)
       THEN Raise("AssertionError", 107, <<>>)
       ELSE IF ~(MaxOf({dico[j][2] : j \in 1..Len(dico)}) < Emb2Size)
       THEN Raise("AssertionError", 108, <<>>)
       ELSE pc' = "dispatch" /\ UNCHANGED error
    /\ UNCHANGED <<inputVars, loadVars, dico, evalVars>>

\* The parameters <<a, b>> of the score rows tried: column 0 has exactly a
\* of the columns 2.. scored above it, column 1 has b of them.
ScoreParams ==
    {<<0, 3>>, <<5, 0>>, <<4, 4>>, <<0, 10>>, <<10, 3>>, <<10, 10>>}

\* One row of the score matrix over n2 target columns.  Columns 2.. have
\* distinct even scores, falling with the id; columns 0 and 1 have odd
\* scores, equal to each other (a tie) when a = b.
ScoreRow(n2, a, b) ==
    [c \in 0..(n2 - 1) |->
        IF c = 0 THEN 2 * (n2 - a) - 1
        ELSE IF c = 1 THEN 2 * (n2 - b) - 1
        ELSE 2 * (n2 + 1 - c)]

\* The score matrices of a non-empty index: one row per dictionary row,
\* rows of the same source id equal (query = emb1[dico[:, 0]]).
ScoreMatrices ==
    LET srcs == {dico[j][1] : j \in 1..Len(dico)}
    IN  {[j \in 1..Len(dico) |->
            ScoreRow(Emb2Size, prm[dico[j][1]][1], prm[dico[j][1]][2])] :
         prm \in [srcs -> ScoreParams]}

\* A dispatch that treats every unrecognised string as "nn".
MethodKindFallback(m) ==
    IF StartsWith(m, PrefixInvsm) THEN "invsm"
    ELSE IF StartsWith(m, PrefixCsls) THEN "csls"
    ELSE "nn"

\* The branch of the if/elif chain of lines 116-150 a method string takes.
MethodKind(m) ==
    IF m = MethodNN THEN "nn"
    ELSE IF StartsWith(m, PrefixInvsm) THEN "invsm"
    ELSE IF StartsWith(m, PrefixCsls) THEN "csls"
    ELSE "unknown"

\* Lines 116-150: the method string selects the scoring, or raises.
ComputeScores ==
    /\ pc = "dispatch"
    /\ LET kind == MethodKind(method) IN
       IF kind = "nn"
       THEN /\ scores' \in ScoreMatrices
            /\ pc' = "topk"
            /\ UNCHANGED error
       ELSE IF kind = "invsm"
       THEN IF FloatParses(Suffix(method, PrefixInvsm))
            THEN /\ scores' \in ScoreMatrices
                 /\ pc' = "topk"
                 /\ UNCHANGED error
            ELSE /\ Raise("ValueError", 122, Suffix(method, PrefixInvsm))
                 /\ UNCHANGED scores
       ELSE IF kind = "csls"
       THEN IF IsDigit(Suffix(method, PrefixCsls))
            THEN /\ scores' \in ScoreMatrices
                 /\ pc' = "topk"
                 /\ UNCHANGED error
            ELSE /\ Raise("AssertionError", 136, <<>>)
                 /\ UNCHANGED scores
       ELSE /\ Raise("Exception", 150, <<"Unknown method: ", method>>)
            /\ UNCHANGED scores
    /\ UNCHANGED <<inputVars, loadVars, dico, top_matches, kpos, n_relevant,
                   row_matching, matching, trans_match, i, matching_at_k,
                   results>>

\* The orders in which topk may return the n best columns of a row: best
\* first, columns of equal score in any order.
RECURSIVE TopKOrders(_, _, _)
TopKOrders(row, n, chosen) ==
    IF Len(chosen) = n THEN {chosen}
    ELSE LET rest == DOMAIN row \ {chosen[j] : j \in 1..Len(chosen)}
             best == {c \in rest : \A d \in rest : row[d] <= row[c]}
         IN  UNION {TopKOrders(row, n, Append(chosen, c)) : c \in best}

\* scores.topk(10, 1, True)[1] over all rows.
TopKResults ==
    LET orders == [j \in 1..Len(scores) |-> TopKOrders(scores[j], TopN, <<>>)]
        all == UNION {orders[j] : j \in 1..Len(scores)}
    IN  {tm \in [1..Len(scores) -> all] :
            \A j \in 1..Len(scores) : tm[j] \in orders[j]}

\* Lines 152-154: topk raises when the matrix has fewer than 10 columns.
TopMatches ==
    /\ pc = "topk"
    /\ IF Emb2Size < TopN
       THEN /\ Raise("RuntimeError", 154, <<>>)
            /\ UNCHANGED <<top_matches, kpos>>
       ELSE /\ top_matches' \in TopKResults
            /\ kpos' = 1
            /\ pc' = "cutoff"
            /\ UNCHANGED error
    /\ UNCHANGED <<inputVars, loadVars, dico, scores, n_relevant,
                   row_matching, matching, trans_match, i, matching_at_k,
                   results>>

\* The slice [:, k:], which drops the k best columns and keeps the others.
TopKSliceTail(row, k) == SubSeq(row, k + 1, Len(row))

\* top_matches[:, :k] for one row (line 156).
TopKSlice(row, k) == SubSeq(row, 1, k)

\* A list built from column 0 of the index, the source ids.
ListedDicoSources == [j \in 1..Len(dico) |-> dico[j][1]]

\* listed_dico (line 158): the gold target ids, row by row.
ListedDico == [j \in 1..Len(dico) |-> dico[j][2]]

\* Whether a row's top-k list holds an id of `listed` (lines 162-165).
RowRelevant(topk, listed) ==
    \E p \in 1..Len(topk) : \E j \in 1..Len(listed) : topk[p] = listed[j]

\* (top_k_matches == dico[:, 1][:, None]).sum(1) for one row (line 176).
RowHits(topk, target) == Cardinality({p \in 1..Len(topk) : topk[p] = target})

\* Lines 155-180: the start of one cutoff's evaluation.
CutoffBegin ==
    /\ pc = "cutoff"
    /\ LET k == Cutoffs[kpos]
           top_k_matches ==
               [j \in 1..Len(dico) |-> TopKSlice(top_matches[j], k)]
       IN  /\ n_relevant' =
                  Cardinality({j \in 1..Len(dico) :
                                  RowRelevant(top_k_matches[j], ListedDico)})
           /\ row_matching' =
                  [j \in 1..Len(dico) |-> RowHits(top_k_matches[j], dico[j][2])]
    /\ matching' = <<>>
    /\ trans_match' = <<>>
    /\ i' = 0
    /\ pc' = "aggregate"
    /\ UNCHANGED <<inputVars, loadVars, dico, scores, top_matches, kpos,
                   matching_at_k, results, error>>

Min2(a, b) == IF a <= b THEN a ELSE b

\* dict.get(key, 0)
Get(d, key) == IF key \in DOMAIN d THEN d[key] ELSE 0

\* d[key] = value
Put(d, key, value) ==
    [x \in DOMAIN d \cup {key} |-> IF x = key THEN value ELSE d[x]]

\* An accumulation with no cap.
UncappedHit(prev, hit) == prev + hit

\* The value stored for a source id (line 182).
CappedHit(prev, hit) == Min2(prev + hit, 1)

\* A trace value that adds the hit a second time and does not cap it.
TraceValueUncapped(updated, hit) == updated + hit

\* The value appended to the trace (line 183), computed from the dict as
\* already updated by line 182.
TraceValue(updated, hit) == Min2(updated + hit, 1)

\* Lines 181-183: one iteration of the aggregation loop.
AggregateRow ==
    /\ pc = "aggregate"
    /\ i < Len(dico)
    /\ LET src_id == dico[i + 1][1]
           hit == row_matching[i + 1]
       IN  /\ matching' =
                  Put(matching, src_id, CappedHit(Get(matching, src_id), hit))
           /\ trans_match' =
                  Append(trans_match,
                         <<src_id, TraceValue(Get(matching', src_id), hit)>>)
    /\ i' = i + 1
    /\ UNCHANGED <<pc, inputVars, loadVars, dico, scores, top_matches, kpos,
                   n_relevant, row_matching, matching_at_k, results, error>>

RECURSIVE SumValues(_)
\* np.sum(list(d.values()))
SumValues(d) ==
    IF DOMAIN d = {} THEN 0
    ELSE LET x == CHOOSE y \in DOMAIN d : TRUE
         IN  d[x] + SumValues([y \in DOMAIN d \ {x} |-> d[y]])

\* 100 * np.sum(list(matching.values())) / n_relevant (line 200)
PrecisionAtK(m, n) == FDiv(Num(100 * SumValues(m), 1), Num(n, 1))

\* 100 * np.mean(list(matching.values())) (line 206)
RecallAtK(m) ==
    FMul(Num(100, 1),
         FDiv(Num(SumValues(m), 1), Num(Cardinality(DOMAIN m), 1)))

\* 2 * (precision * recall) / (precision + recall) (line 212)
F1ScoreAtK(p, r) == FDiv(FMul(Num(2, 1), FMul(p, r)), FAdd(p, r))

Result(name, k, value) == [name |-> name, k |-> k, value |-> value]

\* Lines 185-215: after the loop, the trace is stored and the three
\* metrics of the cutoff are appended to the results.
CutoffMetrics ==
    /\ pc = "aggregate"
    /\ i = Len(dico)
    /\ LET k == Cutoffs[kpos]
           precision_at_k == PrecisionAtK(matching, n_relevant)
           recall_at_k == RecallAtK(matching)
           f1score_at_k == F1ScoreAtK(precision_at_k, recall_at_k)
       IN  /\ matching_at_k' = Put(matching_at_k, k, trans_match)
           /\ results' = results \o
                  <<Result("precision_at", k, precision_at_k),
                    Result("recall_at", k, recall_at_k),
                    Result("f1score_at", k, f1score_at_k)>>
    /\ IF kpos < Len(Cutoffs)
       THEN kpos' = kpos + 1 /\ pc' = "cutoff"
       ELSE kpos' = kpos /\ pc' = "return"
    /\ UNCHANGED <<inputVars, loadVars, dico, scores, top_matches,
                   n_relevant, row_matching, matching, trans_match, i, error>>

\* Line 217: the results are returned.
Return ==
    /\ pc = "return"
    /\ pc' = "done"
    /\ UNCHANGED <<inputVars, loadVars, dico, evalVars, error>>

Next ==
    \/ LoadDictionaryOpen
    \/ LoadDictionaryLine
    \/ LoadDictionaryReturn
    \/ CheckIndex
    \/ ComputeScores
    \/ TopMatches
    \/ CutoffBegin
    \/ AggregateRow
    \/ CutoffMetrics
    \/ Return

Spec == Init /\ [][Next]_vars

\* ------------------------------------------------------------------ claims
\* The aggregation loop of the current cutoff has ended and the metrics of
\* the cutoff are not yet computed.
AfterLoop == pc = "aggregate" /\ i = Len(dico)

SrcIds == {dico[j][1] : j \in 1..Len(dico)}

\* The sum of the row hits of the first n rows that belong to source id s.
RECURSIVE SumRowHits(_, _)
SumRowHits(s, n) ==
    IF n = 0 THEN 0
    ELSE SumRowHits(s, n - 1) + (IF dico[n][1] = s THEN row_matching[n] ELSE 0)

\* The result named `name` at cutoff k.
ResultAt(name, k) ==
    LET j == CHOOSE x \in 1..Len(results) :
                 results[x].name = name /\ results[x].k = k
    IN  results[j].value

HasResult(name, k) ==
    \E x \in 1..Len(results) : results[x].name = name /\ results[x].k = k

\* C1: after the aggregation loop of every cutoff, matching holds one entry
\* per source id of the index, equal to min(sum of the 0/1 hits of the rows
\* of that source id, 1), hence 0 or 1; the hit sum that precision and
\* recall use counts a source id with several hit rows once.
C1_MatchingIsCappedSum ==
    AfterLoop =>
        /\ DOMAIN matching = SrcIds
        /\ \A j \in 1..Len(dico) : row_matching[j] \in {0, 1}
        /\ \A s \in SrcIds :
              /\ matching[s] = Min2(SumRowHits(s, Len(dico)), 1)
              /\ matching[s] \in {0, 1}
        /\ SumValues(matching) =
              Cardinality({s \in SrcIds : SumRowHits(s, Len(dico)) >= 1})

\* A source id with two gold rows, both hit at the current cutoff, that
\* counts 1 in a hit sum of 1.
C1_Witness ==
    /\ AfterLoop
    /\ \E s \in SrcIds : SumRowHits(s, Len(dico)) = 2 /\ matching[s] = 1
    /\ SumValues(matching) = 1

\* C2: in the returned results recall_at_1 <= recall_at_5 <= recall_at_10,
\* and in the returned traces the final capped hit of every source id does
\* not fall from one cutoff to the next larger one.
C2_RecallMonotone ==
    pc = "done" =>
        /\ FLeq(ResultAt("recall_at", 1), ResultAt("recall_at", 5))
        /\ FLeq(ResultAt("recall_at", 5), ResultAt("recall_at", 10))
        /\ \A j \in 1..Len(dico) :
              (\A j2 \in (j + 1)..Len(dico) : dico[j2][1] # dico[j][1]) =>
                  /\ matching_at_k[1][j][2] <= matching_at_k[5][j][2]
                  /\ matching_at_k[5][j][2] <= matching_at_k[10][j][2]

\* A run that returns with recall growing strictly at each cutoff.
C2_Witness ==
    /\ pc = "done"
    /\ ~FLeq(ResultAt("recall_at", 5), ResultAt("recall_at", 1))
    /\ ~FLeq(ResultAt("recall_at", 10), ResultAt("recall_at", 5))

\* C9: after the aggregation loop of every cutoff, the hit sum is at most
\* n_relevant: every source id with hit 1 has a row counted in n_relevant;
\* so with n_relevant > 0 the precision lies between 0 and 100, and
\* n_relevant = 0 implies a hit sum of 0.  Every precision in the results
\* that is a number is at most 100.
C9_HitSumAtMostRelevant ==
    /\ AfterLoop =>
        /\ SumValues(matching) <= n_relevant
        /\ \A s \in SrcIds :
              matching[s] = 1 =>
                  \E j \in 1..Len(dico) :
                      /\ dico[j][1] = s
                      /\ \E p \in 1..Cutoffs[kpos] :
                            \E j2 \in 1..Len(dico) :
                                top_matches[j][p] = dico[j2][2]
        /\ n_relevant > 0 =>
              /\ FLeq(Num(0, 1), PrecisionAtK(matching, n_relevant))
              /\ FLeq(PrecisionAtK(matching, n_relevant), Num(100, 1))
        /\ n_relevant = 0 => SumValues(matching) = 0
    /\ \A x \in 1..Len(results) :
          results[x].name = "precision_at" =>
              \/ results[x].value = NaN
              \/ FLeq(results[x].value, Num(100, 1))

\* A cutoff at which some source id is hit and some row is relevant
\* without being a hit.
C9_Witness ==
    /\ AfterLoop
    /\ SumValues(matching) > 0
    /\ SumValues(matching) < n_relevant

\* C10: each step of the aggregation loop appends, for the row it
\* processes, the row's source id with the value matching holds for that
\* id right after the step; the trace and the dict hold only 0 and 1, the
\* trace entries of one source id never fall in row order, and the last
\* trace entry of a source id is the dict's value for it.
C10_TraceFollowsMatching ==
    /\ [][(pc = "aggregate" /\ i' = i + 1) =>
            /\ Len(trans_match') = i'
            /\ trans_match'[i'] = <<dico[i'][1], matching'[dico[i'][1]]>>]_vars
    /\ [](pc = "aggregate" =>
            /\ Len(trans_match) = i
            /\ \A s \in DOMAIN matching : matching[s] \in {0, 1}
            /\ \A j \in 1..i :
                  /\ trans_match[j][1] = dico[j][1]
                  /\ trans_match[j][2] \in {0, 1}
                  /\ \A j2 \in (j + 1)..i :
                        trans_match[j2][1] = trans_match[j][1] =>
                            trans_match[j][2] <= trans_match[j2][2]
                  /\ (\A j2 \in (j + 1)..i :
                         trans_match[j2][1] # trans_match[j][1]) =>
                            trans_match[j][2] = matching[trans_match[j][1]])

\* The second evaluation adds a hit to an entry that is already 1: two
\* rows of one source id, both hit.
C10_Witness ==
    /\ pc = "aggregate"
    /\ i >= 2
    /\ dico[1][1] = dico[2][1]
    /\ row_matching[1] = 1
    /\ row_matching[2] = 1
    /\ trans_match[2] = <<dico[2][1], 1>>

\* A line of two tokens without an upper-case letter.
WellFormed(line) == Len(line) = 2 /\ line = LowerLine(line)

InVocab1(w) == w \in DOMAIN word2id1
InVocab2(w) == w \in DOMAIN word2id2

\* The number of the first n lines of the file that satisfy Test.
CountLines(n, Test(_)) == Cardinality({j \in 1..n : Test(data[j])})

\* The number of elements of sequence sq equal to x.
Occurrences(sq, x) == Cardinality({j \in 1..Len(sq) : sq[j] = x})

\* load_dictionary has returned (the run is past line 102).
Loaded == pc \notin {"call", "load_loop"} /\ error.line \notin 45..88

\* C8: for a file of well-formed two-token lines only, the load does not
\* fail; while it runs, pairs holds the lines read so far with both words
\* known, in file order, and not_found, not_found1, not_found2 count the
\* lines read so far with an unknown word, with an unknown source word and
\* with an unknown target word; once it has returned, the rows plus
\* not_found are the lines of the file, max(not_found1, not_found2) <=
\* not_found <= not_found1 + not_found2, and the rows are the id pairs of
\* the kept lines, each as often as it was kept, ascending by id1.
C8_LoadCountsAndSorts ==
    (isfile /\ \A j \in 1..Len(data) : WellFormed(data[j])) =>
        LET Kept(line) == InVocab1(line[1]) /\ InVocab2(line[2])
            Dropped(line) == ~Kept(line)
            NoSrc(line) == ~InVocab1(line[1])
            NoTgt(line) == ~InVocab2(line[2])
            n == IF pc = "call" THEN 0 ELSE index
        IN  /\ error.line \notin 45..88
            /\ pc = "load_loop" => pairs = SelectSeq(SubSeq(data, 1, n), Kept)
            /\ not_found = CountLines(n, Dropped)
            /\ not_found1 = CountLines(n, NoSrc)
            /\ not_found2 = CountLines(n, NoTgt)
            /\ Loaded =>
                  /\ n = Len(data)
                  /\ Len(dico) + not_found = Len(data)
                  /\ not_found1 <= not_found
                  /\ not_found2 <= not_found
                  /\ not_found <= not_found1 + not_found2
                  /\ \A j \in 1..(Len(dico) - 1) : dico[j][1] <= dico[j + 1][1]
                  /\ \A a \in DOMAIN word2id1, b \in DOMAIN word2id2 :
                        Occurrences(dico, <<word2id1[a], word2id2[b]>>)
                            = Occurrences(data, <<a, b>>)
                  /\ \A j \in 1..Len(dico) :
                        \E a \in DOMAIN word2id1, b \in DOMAIN word2id2 :
                            dico[j] = <<word2id1[a], word2id2[b]>>

\* A returned load that had to reorder the kept pairs.
C8_Witness ==
    /\ pc = "loaded"
    /\ \A j \in 1..Len(data) : WellFormed(data[j])
    /\ Len(dico) = 2
    /\ Len(data) = 2
    /\ dico[1] = <<word2id1[data[2][1]], word2id2[data[2][2]]>>
    /\ dico[1][1] < dico[2][1]

Unrecognised(m) ==
    m # MethodNN /\ ~StartsWith(m, PrefixInvsm) /\ ~StartsWith(m, PrefixCsls)

MalformedSuffix(m) ==
    \/ StartsWith(m, PrefixInvsm) /\ ~FloatParses(Suffix(m, PrefixInvsm))
    \/ StartsWith(m, PrefixCsls) /\ ~IsDigit(Suffix(m, PrefixCsls))

UnknownMethodError ==
    [type |-> "Exception", line |-> 150, arg |-> <<"Unknown method: ", method>>]

\* No score, ranking or metric was computed and nothing was returned.
NoMetrics ==
    /\ pc \in {"call", "load_loop", "loaded", "dispatch", "failed"}
    /\ scores = <<>>
    /\ top_matches = <<>>
    /\ results = <<>>

\* C7 as stated: with an unrecognised method string the run produces no
\* metrics and, when it has failed, the error is the one that names the
\* string.
C7_UnknownMethodAlwaysNamed ==
    Unrecognised(method) =>
        /\ NoMetrics
        /\ pc = "failed" => error = UnknownMethodError

\* C7 as amended: with an unrecognised method string, or a recognised
\* prefix with a malformed suffix, the run produces no metrics and ends in
\* an error.  The dictionary is loaded and its ids are checked first
\* (lines 102-108): an error of that part is raised as it is; once that
\* part has passed, the error of an unrecognised string is the one that
\* names it (line 150), and the error of a malformed suffix is the one
\* raised where the suffix is parsed (lines 122 and 136).
C7_UnknownMethodNamedAfterLoad ==
    /\ Unrecognised(method) =>
          /\ NoMetrics
          /\ pc = "failed" => (error.line <= 108 \/ error = UnknownMethodError)
    /\ MalformedSuffix(method) =>
          /\ NoMetrics
          /\ pc = "failed" =>
                \/ error.line <= 108
                \/ error = [type |-> "ValueError", line |-> 122,
                            arg |-> Suffix(method, PrefixInvsm)]
                \/ error = [type |-> "AssertionError", line |-> 136,
                            arg |-> <<>>]

\* The dictionary loaded and passed the id checks, and the run failed on
\* the unrecognised method string.
C7_Witness ==
    /\ Unrecognised(method)
    /\ pc = "failed"
    /\ dico # <<>>
    /\ error = UnknownMethodError

\* C3: in the end-to-end scenario (two target words, cat/chat and
\* dog/chien each other's unique nearest neighbour, method nn) the run
\* does not fail, and when it has returned the three metrics at cutoff 1
\* are 100.
C3_EndToEndScenario ==
    (/\ isfile
     /\ data = << <<"cat", "chat">>, <<"dog", "chien">> >>
     /\ word2id2 = Vocab2(2)
     /\ method = MethodNN
     /\ scores # <<>>
     /\ scores[1][0] > scores[1][1] /\ scores[1][0] > scores[2][0]
     /\ scores[2][1] > scores[2][0] /\ scores[2][1] > scores[1][1]) =>
        /\ pc # "failed"
        /\ pc = "done" =>
              /\ ResultAt("precision_at", 1) = Num(100, 1)
              /\ ResultAt("recall_at", 1) = Num(100, 1)
              /\ ResultAt("f1score_at", 1) = Num(100, 1)

\* C4: when the file is made of well-formed lines that each hold an
\* unknown word, load_dictionary does not return (an empty index) to its
\* caller: the run fails inside it and never gets past line 102.
C4_EmptyDictionaryRaises ==
    (/\ isfile
     /\ Len(data) > 0
     /\ \A j \in 1..Len(data) :
           /\ WellFormed(data[j])
           /\ ~(InVocab1(data[j][1]) /\ InVocab2(data[j][2]))) =>
        /\ pc \in {"call", "load_loop", "failed"}
        /\ pc = "failed" => error.line \in 45..88

\* C5: when every line of the file is lower-case and has at most two
\* tokens, the load does not fail; a line of fewer than two tokens is
\* skipped with a warning, and the rows returned are the id pairs of the
\* two-token lines with both words known.
C5_ShortLinesSkipped ==
    (isfile /\ \A j \in 1..Len(data) :
                  Len(data[j]) <= 2 /\ data[j] = LowerLine(data[j])) =>
        LET Short(line) == Len(line) < 2
            Kept(line) ==
                Len(line) = 2 /\ InVocab1(line[1]) /\ InVocab2(line[2])
        IN  /\ error.line \notin 45..88
            /\ Loaded =>
                  /\ Len(warnings) = CountLines(Len(data), Short)
                  /\ Len(dico) = CountLines(Len(data), Kept)
                  /\ \A a \in DOMAIN word2id1, b \in DOMAIN word2id2 :
                        Occurrences(dico, <<word2id1[a], word2id2[b]>>)
                            = Occurrences(data, <<a, b>>)

\* C6: a cutoff whose precision and recall sum to 0 gets no f1score
\* result, and the run does not return.
C6_F1FailsOnZeroSum ==
    \A kp \in 1..Len(Cutoffs) :
        LET k == Cutoffs[kp] IN
        (/\ HasResult("precision_at", k)
         /\ HasResult("recall_at", k)
         /\ IsZero(FAdd(ResultAt("precision_at", k), ResultAt("recall_at", k))))
            => /\ ~HasResult("f1score_at", k)
               /\ pc \notin {"return", "done"}

=============================================================================
